---- MODULE Spec2Model ----
(***************************************************************************)
(* Model of the furnace temperature server (IOT.py): the Bottle routes     *)
(* /, /current_temperature and POST /setpoint, the relay control of        *)
(* control_heating_relay and the e-mail notification of                    *)
(* send_email_notification.  Temperatures are whole degrees Celsius.       *)
(* HARDWARE_AVAILABLE = FALSE is the development build (mocks); TRUE is    *)
(* the Raspberry Pi build, in which the blocks marked PROD are active.     *)
(***************************************************************************)
EXTENDS Integers, Sequences, FiniteSets

\* ---------------------------------------------------------------- bounds
\* Number of connections the server's listen backlog and handler hold.
NumSlots == 2

Slots == 1..NumSlots

\* ------------------------------------------------------------- constants
MIN_TEMPERATURE == 200
MAX_TEMPERATURE == 1500
TEMPERATURE_THRESHOLD == 10
MOCK_TEMPERATURE_MIN == 200
MOCK_TEMPERATURE_MAX == 1500
TEMP_RANGE_MIN == -50
TEMP_RANGE_MAX == 500
InitialSetpoint == 25

\* ---------------------------------------------------------------- floats
\* A Python float: a finite number, NaN or an infinity.  None is Python's None.
Num(n) == [kind |-> "num", v |-> n]
NaN == [kind |-> "nan", v |-> 0]
PosInf == [kind |-> "inf", v |-> 0]
NegInf == [kind |-> "-inf", v |-> 0]
None == [kind |-> "None", v |-> 0]

\* a < b on floats (every comparison with NaN is false).
FLt(a, b) ==
    CASE a.kind = "nan" \/ b.kind = "nan" -> FALSE
      [] a.kind = "inf" -> FALSE
      [] a.kind = "-inf" -> b.kind # "-inf"
      [] b.kind = "inf" -> TRUE
      [] b.kind = "-inf" -> FALSE
      [] OTHER -> a.v < b.v

\* a <= b on floats.
FLe(a, b) ==
    /\ a.kind # "nan"
    /\ b.kind # "nan"
    /\ (FLt(a, b) \/ a = b)

\* a - d for a finite d.
FSub(a, d) == IF a.kind = "num" THEN Num(a.v - d) ELSE a

\* ------------------------------------------------------- form field text
Digits == {"0", "1", "2", "3", "4", "5", "6", "7", "8", "9"}

DigitVal(c) ==
    CASE c = "0" -> 0 [] c = "1" -> 1 [] c = "2" -> 2 [] c = "3" -> 3
      [] c = "4" -> 4 [] c = "5" -> 5 [] c = "6" -> 6 [] c = "7" -> 7
      [] c = "8" -> 8 [] c = "9" -> 9

IsDigits(s) == Len(s) > 0 /\ \A k \in 1..Len(s) : s[k] \in Digits

RECURSIVE DecimalValue(_)
DecimalValue(s) ==
    IF Len(s) = 0 THEN 0
    ELSE 10 * DecimalValue(SubSeq(s, 1, Len(s) - 1)) + DigitVal(s[Len(s)])

\* float(text) for the texts of FormTexts: "ValueError" when the text is no
\* float literal, else the float it denotes.
ValueError == [kind |-> "ValueError", v |-> 0]

float(s) ==
    CASE s = <<"n", "a", "n">> -> NaN
      [] s = <<"i", "n", "f">> -> PosInf
      [] s = <<"-", "i", "n", "f">> -> NegInf
      [] IsDigits(s) -> Num(DecimalValue(s))
      [] Len(s) > 1 /\ s[1] = "-" /\ IsDigits(Tail(s)) -> Num(0 - DecimalValue(Tail(s)))
      [] OTHER -> ValueError

\* The texts a client posts in the 'setpoint' form field.
FormTexts ==
    { <<"a", "b", "c">>, <<>>, <<"n", "a", "n">>, <<"i", "n", "f">>,
      <<"-", "i", "n", "f">>, <<"5", "0">>, <<"1", "9", "9">>,
      <<"2", "0", "0">>, <<"5", "0", "0">>, <<"1", "5", "0", "0">>,
      <<"1", "5", "0", "1">> }

\* request.forms.get("setpoint"): the text, or absent (None).
Absent == [present |-> FALSE, text |-> <<>>]
Forms == {Absent} \cup {[present |-> TRUE, text |-> t] : t \in FormTexts}

\* ------------------------------------------------------------ the sensor
Temps == {-50, 200, 485, 490, 500, 505, 1500}

\* What read_temperature() may return.
read_temperature(hw) ==
    IF ~hw
    THEN {Num(t) : t \in {u \in Temps : MOCK_TEMPERATURE_MIN <= u /\ u <= MOCK_TEMPERATURE_MAX}}
    ELSE {None} \cup {Num(t) : t \in {u \in Temps : TEMP_RANGE_MIN <= u /\ u <= TEMP_RANGE_MAX}}

\* A range check that forgets the upper end.
validate_temperature_no_upper(temperature) ==
    FLe(Num(MIN_TEMPERATURE), temperature) /\ temperature.kind # "inf"

\* A range check that excludes its two ends.
validate_temperature_exclusive(temperature) ==
    FLt(Num(MIN_TEMPERATURE), temperature) /\ FLt(temperature, Num(MAX_TEMPERATURE))

validate_temperature(temperature) ==
    FLe(Num(MIN_TEMPERATURE), temperature) /\ FLe(temperature, Num(MAX_TEMPERATURE))

\* A decision that also heats at the target.
HeatingDecisionAtOrBelow(current_temperature, target_temperature) ==
    IF FLe(current_temperature, target_temperature) THEN "on" ELSE "off"

\* The relay command of an evaluation: heat while the reading is below the target.
HeatingDecision(current_temperature, target_temperature) ==
    IF FLt(current_temperature, target_temperature) THEN "on" ELSE "off"

\* A low-temperature condition that excludes the threshold itself.
LowTemperatureStrict(current_temperature, target_temperature) ==
    FLt(current_temperature, FSub(target_temperature, TEMPERATURE_THRESHOLD))

\* The low-temperature condition of an evaluation that heats.
LowTemperature(current_temperature, target_temperature) ==
    FLe(current_temperature, FSub(target_temperature, TEMPERATURE_THRESHOLD))

\* A fail-safe policy: the relay is switched off when the sensor read fails.
relay_off_after_read_failure(r) == "off"

\* The relay after an evaluation whose sensor read failed: left as it was.
relay_after_read_failure(r) == r

\* A notification only when the command changes the relay's state.
RelayNotificationOnChange(previous, command) ==
    IF previous = command THEN "none"
    ELSE IF command = "on" THEN "engaged" ELSE "disengaged"

\* The notification that follows a relay command (previous relay state, command).
RelayNotification(previous, command) ==
    IF command = "on" THEN "engaged" ELSE "disengaged"

\* ------------------------------------------------------- e-mail transport
\* States of cred.json, and what load_email_credentials() returns for each:
\* "None", the dict, or a JSON value that is no dict but contains the three
\* key names (a string or a list).
CredentialFiles == {"missing", "badjson", "nokeys", "scalar", "notdict", "ok"}

load_email_credentials(file) ==
    CASE file = "missing" -> "None"
      [] file = "badjson" -> "None"
      [] file = "nokeys" -> "None"
      [] file = "scalar" -> "None"
      [] file = "notdict" -> "notdict"
      [] file = "ok" -> "dict"

\* Outcomes of the SMTP session.
SmtpOutcomes == {"sent", "SMTPAuthenticationError", "SMTPException", "OSError"}

\* Why a send_email_notification call ended as it did: cred.json gave no
\* credentials, the SMTP login was refused, another error of the session or of
\* the message's construction, or the message was sent.
NotificationCause(file, smtp) ==
    IF load_email_credentials(file) = "None" THEN "unconfigured"
    ELSE IF load_email_credentials(file) = "notdict" THEN "transport"
    ELSE CASE smtp = "sent" -> "sent"
           [] smtp = "SMTPAuthenticationError" -> "auth"
           [] smtp = "SMTPException" -> "transport"
           [] smtp = "OSError" -> "transport"

\* A send that reports missing credentials with a value of its own.
send_email_notification_unconfigured(file, smtp) ==
    IF load_email_credentials(file) = "None" THEN "Unconfigured"
    ELSE IF load_email_credentials(file) = "notdict" THEN "False"
    ELSE CASE smtp = "sent" -> "True"
           [] smtp = "SMTPAuthenticationError" -> "False"
           [] smtp = "SMTPException" -> "False"
           [] smtp = "OSError" -> "False"

\* A send without the final `except Exception`: a transport error that is no
\* SMTPException leaves the function.
send_email_notification_uncaught(file, smtp) ==
    IF load_email_credentials(file) = "None" THEN "False"
    ELSE IF load_email_credentials(file) = "notdict" THEN "raise"
    ELSE CASE smtp = "sent" -> "True"
           [] smtp = "SMTPAuthenticationError" -> "False"
           [] smtp = "SMTPException" -> "False"
           [] smtp = "OSError" -> "raise"

\* What send_email_notification() does: returns "True" or "False" ("raise"
\* would be an exception leaving the function).
send_email_notification(file, smtp) ==
    IF load_email_credentials(file) = "None" THEN "False"
    ELSE IF load_email_credentials(file) = "notdict" THEN "False"
    ELSE CASE smtp = "sent" -> "True"
           [] smtp = "SMTPAuthenticationError" -> "False"
           [] smtp = "SMTPException" -> "False"
           [] smtp = "OSError" -> "False"

\* ----------------------------------------------------------------- state
VARIABLES
    HARDWARE_AVAILABLE, \* the build: FALSE mocks, TRUE Raspberry Pi
    setpoint,           \* the global setpoint (a float)
    relay,              \* the relay: "on" or "off" (in the mock build, the
                        \* state the mock last announced)
    req                 \* per connection: the request and its handler's locals

vars == <<HARDWARE_AVAILABLE, setpoint, relay, req>>

\* A free connection slot.
Idle ==
    [ pc |-> "idle", route |-> "none", form |-> Absent,
      new_setpoint |-> None, old_setpoint |-> None,
      target_temperature |-> None, current_temperature |-> None,
      evals |-> 0, previous |-> "none", command |-> "none", raised |-> FALSE,
      notes |-> <<>>, causes |-> <<>>, error |-> "none", status |-> 0, temperature |-> None ]

Routes == {"index", "current_temperature", "setpoint"}

\* Handler positions at which a request is being handled.
Running == {"handler", "stored", "switch", "notify", "warn", "render", "done"}

\* A server that gives every request its own thread.
ServerThreaded == TRUE

\* The server started by run() handles one request at a time.
ServerFree == \A j \in Slots : req[j].pc \notin Running

\* A call that passes the setpoint the handler replaced.
EvaluationArgumentOld(i) == req[i].old_setpoint

\* The argument of the control_heating_relay call in set_setpoint.
EvaluationArgument(i) == setpoint

Init ==
    /\ HARDWARE_AVAILABLE \in BOOLEAN
    /\ setpoint = Num(InitialSetpoint)
    /\ relay = "off"
    /\ req = [i \in Slots |-> Idle]

\* ------------------------------------------------------------ the clients
\* A client sends a request; it waits until the server accepts it.
Request(i) ==
    /\ req[i].pc = "idle"
    /\ \E r \in Routes : \E f \in Forms :
        /\ (r # "setpoint" => f = Absent)
        /\ req' = [req EXCEPT ![i].pc = "pending", ![i].route = r, ![i].form = f]
    /\ UNCHANGED <<HARDWARE_AVAILABLE, setpoint, relay>>

\* ------------------------------------------------------------- the server
Accept(i) ==
    /\ req[i].pc = "pending"
    /\ ServerFree
    /\ req' = [req EXCEPT ![i].pc = "handler"]
    /\ UNCHANGED <<HARDWARE_AVAILABLE, setpoint, relay>>

\* An index page that also runs the relay control before it is rendered.
index_evaluating(i) ==
    /\ req[i].pc = "handler"
    /\ req[i].route = "index"
    /\ req' = [req EXCEPT ![i].pc = "stored", ![i].status = 200]
    /\ UNCHANGED <<HARDWARE_AVAILABLE, setpoint, relay>>

\* GET /
index(i) ==
    /\ req[i].pc = "handler"
    /\ req[i].route = "index"
    /\ \E t \in read_temperature(HARDWARE_AVAILABLE) :
        req' = [req EXCEPT ![i].pc = "done", ![i].temperature = t, ![i].status = 200]
    /\ UNCHANGED <<HARDWARE_AVAILABLE, setpoint, relay>>

\* GET /current_temperature
get_current_temperature(i) ==
    /\ req[i].pc = "handler"
    /\ req[i].route = "current_temperature"
    /\ \E t \in read_temperature(HARDWARE_AVAILABLE) :
        req' = [req EXCEPT ![i].pc = "done", ![i].temperature = t,
                           ![i].status = IF t = None THEN 500 ELSE 200]
    /\ UNCHANGED <<HARDWARE_AVAILABLE, setpoint, relay>>

\* POST /setpoint, up to the assignment of the global setpoint.
set_setpoint(i) ==
    /\ req[i].pc = "handler"
    /\ req[i].route = "setpoint"
    /\ LET new_setpoint_str == req[i].form
           new_setpoint == float(new_setpoint_str.text)
       IN  IF ~new_setpoint_str.present
           THEN /\ req' = [req EXCEPT ![i].pc = "render", ![i].status = 400,
                                      ![i].error = "missing"]
                /\ UNCHANGED setpoint
           ELSE IF new_setpoint = ValueError
           THEN /\ req' = [req EXCEPT ![i].pc = "render", ![i].status = 400,
                                      ![i].error = "not a number"]
                /\ UNCHANGED setpoint
           ELSE IF ~validate_temperature(new_setpoint)
           THEN /\ req' = [req EXCEPT ![i].pc = "render", ![i].status = 400,
                                      ![i].error = "out of range",
                                      ![i].new_setpoint = new_setpoint]
                /\ UNCHANGED setpoint
           ELSE /\ setpoint' = new_setpoint
                /\ req' = [req EXCEPT ![i].pc = "stored", ![i].status = 200,
                                      ![i].new_setpoint = new_setpoint,
                                      ![i].old_setpoint = setpoint]
    /\ UNCHANGED <<HARDWARE_AVAILABLE, relay>>

\* control_heating_relay(setpoint): the range guard and the sensor read.
control_heating_relay(i) ==
    /\ req[i].pc = "stored"
    /\ LET target_temperature == EvaluationArgument(i)
           called == [req[i] EXCEPT !.evals = @ + 1, !.previous = relay,
                                    !.target_temperature = target_temperature]
       IN  IF ~validate_temperature(target_temperature)
           THEN /\ req' = [req EXCEPT ![i] = [called EXCEPT !.pc = "render"]]
                /\ UNCHANGED relay
           ELSE \E current_temperature \in read_temperature(HARDWARE_AVAILABLE) :
                IF current_temperature = None
                THEN /\ req' = [req EXCEPT ![i] = [called EXCEPT !.pc = "render"]]
                     /\ relay' = relay_after_read_failure(relay)
                ELSE /\ req' = [req EXCEPT ![i] =
                            [called EXCEPT !.pc = "switch",
                                           !.current_temperature = current_temperature]]
                     /\ UNCHANGED relay
    /\ UNCHANGED <<HARDWARE_AVAILABLE, setpoint>>

\* control_heating_relay: the relay command.  The mock build announces the
\* command and the low temperature in its log; the Raspberry Pi build calls
\* relay.on() or relay.off(), which may raise.
control_heating_relay_switch(i) ==
    /\ req[i].pc = "switch"
    /\ LET command == HeatingDecision(req[i].current_temperature, req[i].target_temperature)
           low == /\ command = "on"
                  /\ LowTemperature(req[i].current_temperature, req[i].target_temperature)
       IN  IF ~HARDWARE_AVAILABLE
           THEN /\ relay' = command
                /\ req' = [req EXCEPT ![i].pc = "render", ![i].command = command,
                       ![i].notes =
                           (IF RelayNotification(relay, command) = "none" THEN <<>>
                            ELSE <<[kind |-> RelayNotification(relay, command),
                                    result |-> "logged"]>>)
                           \o (IF low THEN <<[kind |-> "low", result |-> "logged"]>>
                               ELSE <<>>)]
           ELSE \/ /\ relay' = command
                   /\ req' = [req EXCEPT ![i].pc = "notify", ![i].command = command]
                \/ /\ UNCHANGED relay
                   /\ req' = [req EXCEPT ![i].pc = "render", ![i].command = command,
                                         ![i].raised = TRUE]
    /\ UNCHANGED <<HARDWARE_AVAILABLE, setpoint>>

\* control_heating_relay: the e-mail that follows the relay command.
control_heating_relay_notify(i) ==
    /\ req[i].pc = "notify"
    /\ LET kind == RelayNotification(req[i].previous, req[i].command)
           low == /\ req[i].command = "on"
                  /\ LowTemperature(req[i].current_temperature, req[i].target_temperature)
           next == IF low THEN "warn" ELSE "render"
       IN  IF kind = "none"
           THEN req' = [req EXCEPT ![i].pc = next]
           ELSE \E file \in CredentialFiles : \E smtp \in SmtpOutcomes :
                LET result == send_email_notification(file, smtp)
                IN  req' = [req EXCEPT
                        ![i].pc = IF result = "raise" THEN "render" ELSE next,
                        ![i].raised = (result = "raise"),
                        ![i].notes = Append(@, [kind |-> kind, result |-> result]),
                        ![i].causes = Append(@, NotificationCause(file, smtp))]
    /\ UNCHANGED <<HARDWARE_AVAILABLE, setpoint, relay>>

\* control_heating_relay: the low-temperature warning and its e-mail.
control_heating_relay_warn(i) ==
    /\ req[i].pc = "warn"
    /\ \E file \in CredentialFiles : \E smtp \in SmtpOutcomes :
        LET result == send_email_notification(file, smtp)
        IN  req' = [req EXCEPT
                ![i].pc = "render",
                ![i].raised = (result = "raise"),
                ![i].notes = Append(@, [kind |-> "low", result |-> result]),
                ![i].causes = Append(@, NotificationCause(file, smtp))]
    /\ UNCHANGED <<HARDWARE_AVAILABLE, setpoint, relay>>

\* set_setpoint: the page returned, with a fresh reading.  The causes of the
\* evaluation's e-mail results are known only until the evaluation has returned.
set_setpoint_render(i) ==
    /\ req[i].pc = "render"
    /\ \E t \in read_temperature(HARDWARE_AVAILABLE) :
        req' = [req EXCEPT ![i].pc = "done", ![i].temperature = t,
                           ![i].causes = <<>>]
    /\ UNCHANGED <<HARDWARE_AVAILABLE, setpoint, relay>>

\* The response is sent and the connection closed.
Reply(i) ==
    /\ req[i].pc = "done"
    /\ req' = [req EXCEPT ![i] = Idle]
    /\ UNCHANGED <<HARDWARE_AVAILABLE, setpoint, relay>>

ServerStep(i) ==
    \/ Accept(i)
    \/ index(i)
    \/ get_current_temperature(i)
    \/ set_setpoint(i)
    \/ control_heating_relay(i)
    \/ control_heating_relay_switch(i)
    \/ control_heating_relay_notify(i)
    \/ control_heating_relay_warn(i)
    \/ set_setpoint_render(i)
    \/ Reply(i)

Next == \E i \in Slots : Request(i) \/ ServerStep(i)

Spec == Init /\ [][Next]_vars

\* The server finishes the request it is handling and accepts every request
\* that waits; clients need not send any.
FairSpec ==
    /\ Spec
    /\ \A i \in Slots : WF_vars(ServerStep(i)) /\ SF_vars(Accept(i))

\* ================================================================ claims
\* Positions of a set_setpoint handler after its evaluation has ended.
Evaluated == {"render", "done"}

\* The number of notifications of a kind an evaluation has emitted.
Emitted(i, kind) ==
    Cardinality({k \in 1..Len(req[i].notes) : req[i].notes[k].kind = kind})

\* C1: after an evaluation whose sensor read returned r, run for target s, the
\* relay command of that evaluation is "on" if r < s and "off" if r >= s
\* (r = s gives "off"); a command that did not raise is the relay's state.
C1_HeatIffBelowSetpoint ==
    \A i \in Slots :
        (req[i].pc \in Evaluated /\ req[i].evals = 1
            /\ req[i].current_temperature # None) =>
        LET r == req[i].current_temperature.v
            s == req[i].target_temperature.v
        IN  /\ (r < s => req[i].command = "on")
            /\ (r >= s => req[i].command = "off")
            /\ (~req[i].raised => relay = req[i].command)

\* An evaluation read exactly the setpoint and switched the relay off.
C1_Witness ==
    \E i \in Slots :
        /\ req[i].pc = "done"
        /\ req[i].current_temperature = Num(500)
        /\ req[i].target_temperature = Num(500)
        /\ req[i].previous = "on"
        /\ relay = "off"

\* C2: set_setpoint stores the posted value iff the field is present and
\* parses as a finite float x with 200 <= x <= 1500; every other call answers
\* 400 and leaves the setpoint as it was.
C2_SetIffValid ==
    [][\A i \in Slots :
        (req[i].pc = "handler" /\ req[i].route = "setpoint" /\ req'[i].pc # "handler") =>
        LET x == float(req[i].form.text)
            valid == /\ req[i].form.present
                     /\ x.kind = "num"
                     /\ 200 <= x.v
                     /\ x.v <= 1500
        IN  /\ (valid => req'[i].pc = "stored" /\ setpoint' = x /\ req'[i].error = "none")
            /\ (~valid => req'[i].pc = "render" /\ req'[i].status = 400
                            /\ req'[i].error # "none" /\ setpoint' = setpoint)]_vars

\* "50" was rejected as out of range while the setpoint, set to 500 before,
\* stayed 500.
C2_Witness ==
    \E i \in Slots :
        /\ req[i].pc = "done"
        /\ req[i].form.text = <<"5", "0">>
        /\ req[i].error = "out of range"
        /\ req[i].status = 400
        /\ setpoint = Num(500)

\* C3: in every reachable state the stored setpoint lies within
\* [MIN_TEMPERATURE, MAX_TEMPERATURE].
C3_SetpointInRange ==
    /\ setpoint.kind = "num"
    /\ MIN_TEMPERATURE <= setpoint.v
    /\ setpoint.v <= MAX_TEMPERATURE

\* C4: an evaluation whose sensor read failed issued no relay command, emitted
\* no notification and left the relay as it found it.
C4_SensorFailureAborts ==
    \A i \in Slots :
        (req[i].pc \in Evaluated /\ req[i].evals = 1
            /\ req[i].current_temperature = None) =>
        /\ req[i].command = "none"
        /\ req[i].notes = <<>>
        /\ relay = req[i].previous

\* An evaluation's sensor read failed while the relay was on; it is still on.
C4_Witness ==
    \E i \in Slots :
        /\ req[i].pc = "done"
        /\ req[i].evals = 1
        /\ req[i].current_temperature = None
        /\ req[i].previous = "on"
        /\ relay = "on"

\* C5 as stated: an evaluation that switches the relay from off to on emits
\* exactly one "engaged" notification, and one that finds it on and keeps it
\* on emits none.
C5_EngagedOnEdgeOnly ==
    \A i \in Slots :
        (req[i].pc \in Evaluated /\ req[i].command = "on" /\ ~req[i].raised) =>
        Emitted(i, "engaged") = (IF req[i].previous = "off" THEN 1 ELSE 0)

\* C5 as amended: every evaluation whose relay-on command completed emits
\* exactly one "engaged" notification, whether the relay was off or already
\* on before; an evaluation that did not command the relay on emits none.
C5_EngagedOnEveryHeating ==
    \A i \in Slots :
        req[i].pc \in Evaluated =>
        Emitted(i, "engaged") =
            (IF req[i].command = "on" /\ ~req[i].raised THEN 1 ELSE 0)

\* An evaluation found the relay on, kept it on, and emitted "engaged" again
\* together with the low-temperature warning.
C5_Witness ==
    \E i \in Slots :
        /\ req[i].pc = "done"
        /\ HARDWARE_AVAILABLE
        /\ req[i].previous = "on"
        /\ req[i].command = "on"
        /\ relay = "on"
        /\ Emitted(i, "engaged") = 1
        /\ Emitted(i, "low") = 1

C7_StoreThenEvaluateOnce ==
    /\ [](\A i \in Slots :
            /\ (req[i].pc = "stored" =>
                    req[i].evals = 0 /\ setpoint = req[i].new_setpoint)
            /\ (req[i].pc \in {"switch", "notify", "warn", "render", "done"}
                    /\ req[i].route = "setpoint" /\ req[i].error = "none" =>
                    /\ req[i].evals = 1
                    /\ req[i].target_temperature = req[i].new_setpoint
                    /\ setpoint = req[i].new_setpoint)
            /\ (req[i].error # "none" => req[i].evals = 0))
    /\ [][\A i \in Slots :
            (req'[i] # req[i] /\ req'[i].error # "none") =>
            (setpoint' = setpoint /\ relay' = relay)]_vars

\* A set_setpoint("500") replaced the setpoint 1500 and its one evaluation ran
\* for 500: with the reading 500 it switched the relay off.
C7_Witness ==
    \E i \in Slots :
        /\ req[i].pc = "done"
        /\ req[i].old_setpoint = Num(1500)
        /\ req[i].new_setpoint = Num(500)
        /\ req[i].target_temperature = Num(500)
        /\ req[i].current_temperature = Num(500)
        /\ req[i].evals = 1
        /\ req[i].command = "off"

C9_NotificationNeverRaises ==
    /\ [](\A i \in Slots :
            /\ \A k \in 1..Len(req[i].notes) :
                req[i].notes[k].result \in {"True", "False", "logged"}
            /\ (req[i].pc \in {"notify", "warn"} => ~req[i].raised))
    /\ [][\A i \in Slots :
            (req[i].pc \in {"notify", "warn"} /\ req'[i] # req[i]) =>
            (relay' = relay /\ relay' = req[i].command
                /\ req'[i].command = req[i].command)]_vars

\* An evaluation switched the relay on; its first e-mail failed, its second
\* was sent, and the relay is on.
C9_Witness ==
    \E i \in Slots :
        /\ req[i].pc = "done"
        /\ req[i].notes = <<[kind |-> "engaged", result |-> "False"],
                            [kind |-> "low", result |-> "True"]>>
        /\ relay = "on"

\* C10 as stated: once the relay is left on, an evaluation eventually occurs
\* again unless a new set_setpoint request arrives first (the timer tick
\* evaluates without one).
C10_RelayOnIsReevaluated ==
    (relay = "on" /\ \A i \in Slots : req[i].pc = "idle")
        ~> (\E i \in Slots :
                \/ req[i].evals = 1
                \/ req[i].pc = "pending" /\ req[i].route = "setpoint")

\* C10 as amended: evaluation is invoked only on demand: every evaluation is a
\* step of a set_setpoint request that passed validation and stored its value,
\* and the relay changes only in such an evaluation; without a new accepted
\* set_setpoint request no evaluation occurs and the relay stays as it is.
C10_EvaluationOnlyOnSetpoint ==
    [][/\ \A i \in Slots :
            req'[i].evals > req[i].evals =>
                /\ req[i].route = "setpoint"
                /\ req[i].pc = "stored"
                /\ req[i].error = "none"
                /\ setpoint = req[i].new_setpoint
       /\ relay' # relay =>
            \E i \in Slots : req[i].route = "setpoint" /\ req[i].pc = "switch"]_vars

\* The relay is on and no request is in flight.
C10_Witness ==
    /\ relay = "on"
    /\ \A i \in Slots : req[i].pc = "idle"

\* The results send_email_notification has returned, in the evaluations in
\* flight, for calls that ended for one of the given causes.
ResultsFor(causes) ==
    UNION {{req[i].notes[k].result :
                k \in {m \in 1..Len(req[i].causes) : req[i].causes[m] \in causes}} :
           i \in Slots}

\* C11 as stated: the value send_email_notification returns when the
\* credentials are absent differs from the value it returns for a transport
\* failure or an authentication failure.
C11_UnconfiguredIsDistinct ==
    ResultsFor({"unconfigured"}) \cap ResultsFor({"auth", "transport"}) = {}

\* C11 as amended: send_email_notification returns False when the credentials
\* are absent, the same value as for a transport or an authentication
\* failure, and True only when the message was sent.
C11_UnconfiguredReturnsFalse ==
    /\ ResultsFor({"unconfigured", "auth", "transport"}) \subseteq {"False"}
    /\ ResultsFor({"sent"}) \subseteq {"True"}

\* One evaluation sent its first e-mail without credentials and had the login
\* of its second refused: both calls returned False.
C11_Witness ==
    \E i \in Slots :
        /\ req[i].pc = "render"
        /\ req[i].causes = <<"unconfigured", "auth">>
        /\ req[i].notes = <<[kind |-> "engaged", result |-> "False"],
                            [kind |-> "low", result |-> "False"]>>

\* C12: every evaluation is run for a target within [MIN_TEMPERATURE,
\* MAX_TEMPERATURE]: when control_heating_relay is about to be called the
\* stored setpoint is already in range, also in the first request, which
\* replaces the initial setpoint, and so the call's own range guard is never
\* the reason an evaluation ends without reading the sensor.
C12_EvaluationTargetInRange ==
    \A i \in Slots :
        /\ (req[i].pc = "stored" =>
                /\ setpoint.kind = "num"
                /\ 200 <= setpoint.v
                /\ setpoint.v <= 1500)
        /\ (req[i].evals > 0 =>
                /\ req[i].target_temperature.kind = "num"
                /\ 200 <= req[i].target_temperature.v
                /\ req[i].target_temperature.v <= 1500
                /\ (~HARDWARE_AVAILABLE => req[i].current_temperature # None))

\* The first accepted request replaced the initial setpoint 25 by 1500, and
\* its evaluation passed the guard and read the sensor.
C12_Witness ==
    \E i \in Slots :
        /\ req[i].pc = "done"
        /\ req[i].old_setpoint = Num(InitialSetpoint)
        /\ req[i].target_temperature = Num(1500)
        /\ req[i].evals = 1
        /\ req[i].current_temperature = Num(1500)
        /\ req[i].command = "off"

====
